---- MODULE Spec2Model ----
(***************************************************************************)
(* Line/line intersection in 2D (GTE/Mathematics/IntrLine2Line2.h).        *)
(*                                                                         *)
(* TIQuery<T, Line2<T>, Line2<T>>  -- the existence test                    *)
(* FIQuery<T, Line2<T>, Line2<T>>  -- the full intersection query           *)
(*                                                                         *)
(* The scalar type T is modelled in exact arithmetic: the inputs are        *)
(* integer vectors, quotients are rationals <<n, d>> in lowest terms with   *)
(* d > 0, and a normalized vector is kept as the vector together with the   *)
(* square of the length it was divided by.                                  *)
(***************************************************************************)
EXTENDS Integers, Sequences, FiniteSets, TLC

(* ------------------------------ bounds -------------------------------- *)

\* origin coordinates range over 0 .. MaxOrigin
MaxOrigin == 1
\* direction coordinates range over -MaxDir .. MaxDir
MaxDir == 1
\* direction scale factors k range over -MaxScale .. MaxScale, k # 0, k # 1
MaxScale == 2

(* -------------------------- program constants -------------------------- *)

\* std::numeric_limits<int32_t>::max()
MaxInt32 == 2147483647
\* stands for std::numeric_limits<T>::max(), the largest finite value of T
MaxT == 2147483647

(* ------------------------- scalar arithmetic --------------------------- *)

Abs(a) == IF a < 0 THEN -a ELSE a

Sgn(a) == IF a < 0 THEN -1 ELSE IF a > 0 THEN 1 ELSE 0

RECURSIVE GCD(_, _)
GCD(a, b) == IF b = 0 THEN a ELSE GCD(b, a % b)

\* the value n / d of T.  A zero divisor gives what IEEE arithmetic gives:
\* <<1, 0>> (+inf), <<-1, 0>> (-inf) or <<0, 0>> (NaN).
Div(n, d) ==
    IF d = 0 THEN <<Sgn(n), 0>>
    ELSE LET g == GCD(Abs(n), Abs(d))
         IN  <<(Sgn(d) * n) \div g, Abs(d) \div g>>

\* the integer a as a value of T
Scalar(a) == <<a, 1>>

Neg(r) == <<-r[1], r[2]>>

\* a + s * b for integers a, b and a value s of T
AddMul(a, s, b) == Div(a * s[2] + s[1] * b, s[2])

(* ----------------------------- Vector2<T> ------------------------------ *)

Vec(x, y) == [x |-> x, y |-> y]

Sub(a, b) == Vec(a.x - b.x, a.y - b.y)

Scale(k, v) == Vec(k * v.x, k * v.y)

Dot(a, b) == a.x * b.x + a.y * b.y

\* DotPerp(v0, v1) = Dot(v0, Perp(v1)), Perp(v) = (v.y, -v.x)
DotPerp(a, b) == a.x * b.y - a.y * b.x

\* Normalize(v): v divided by its length when the length is positive, the
\* zero vector when v is the zero vector (a zero vector is mapped to a zero
\* vector, a non-zero vector to a positive multiple of itself).  The result
\* stands for (x, y) / sqrt(len2).
Normalize(v) ==
    LET len2 == Dot(v, v)
    IN  IF len2 > 0 THEN [x |-> v.x, y |-> v.y, len2 |-> len2]
        ELSE [x |-> 0, y |-> 0, len2 |-> 1]

\* DotPerp of a normalized vector and a vector: the value num / sqrt(len2)
DotPerpN(n, b) == [num |-> n.x * b.y - n.y * b.x, len2 |-> n.len2]

\* value != (T)0 for a value num / sqrt(len2)
NonZeroN(s) == s.num # 0

IsZeroVec(v) == v.x = 0 /\ v.y = 0

\* Vector2<T>::Zero() as a point with coordinates of type T
ZeroPoint == <<Scalar(0), Scalar(0)>>

\* origin + s * direction
PointAt(origin, s, direction) ==
    <<AddMul(origin.x, s, direction.x), AddMul(origin.y, s, direction.y)>>

(* ------------------------------ Line2<T> ------------------------------- *)

Line(o, d) == [origin |-> o, direction |-> d]

OriginCoords == 0 .. MaxOrigin
DirCoords == (-MaxDir) .. MaxDir
Origins == {Vec(x, y) : x \in OriginCoords, y \in OriginCoords}
Directions == {Vec(x, y) : x \in DirCoords, y \in DirCoords}
Lines == {Line(o, d) : o \in Origins, d \in Directions}
Factors == ((-MaxScale) .. MaxScale) \ {0, 1}

(* ------------------------- TIQuery::Result ----------------------------- *)

\* Result(): intersect(false), numIntersections(0)
TIResultDefault == [intersect |-> FALSE, numIntersections |-> 0]

(* ------------------------ TIQuery::operator() -------------------------- *)

\* mutant: the zero-test is made on Dot instead of DotPerp
TIParallel_DotInsteadOfDotPerp(line0, line1, diff) ==
    LET n == Normalize(diff)
        diffNDotD1 == [num |-> Dot(Vec(n.x, n.y), line1.direction),
                       len2 |-> n.len2]
    IN  IF NonZeroN(diffNDotD1)
        THEN [intersect |-> FALSE, numIntersections |-> 0]
        ELSE [intersect |-> TRUE, numIntersections |-> MaxInt32]

\* mutant: the zero-test is made against line0.direction
TIParallel_TestsDirection0(line0, line1, diff) ==
    LET diffNDotPerpD0 == DotPerpN(Normalize(diff), line0.direction)
    IN  IF NonZeroN(diffNDotPerpD0)
        THEN [intersect |-> FALSE, numIntersections |-> 0]
        ELSE [intersect |-> TRUE, numIntersections |-> MaxInt32]

\* the else branch: the lines are parallel
TIParallel(line0, line1, diff) ==
    LET diffNDotPerpD1 == DotPerpN(Normalize(diff), line1.direction)
    IN  IF NonZeroN(diffNDotPerpD1)
        THEN \* The lines are parallel but distinct.
             [intersect |-> FALSE, numIntersections |-> 0]
        ELSE \* The lines are the same.
             [intersect |-> TRUE, numIntersections |-> MaxInt32]

\* mutant: the parallel test is D0DotPerpD1 > 0 instead of != 0
TIQuery_PositiveOnly(line0, line1) ==
    LET diff == Sub(line1.origin, line0.origin)
        D0DotPerpD1 == DotPerp(line0.direction, line1.direction)
    IN  IF D0DotPerpD1 > 0
        THEN [intersect |-> TRUE, numIntersections |-> 1]
        ELSE TIParallel(line0, line1, diff)

TIQuery(line0, line1) ==
    LET diff == Sub(line1.origin, line0.origin)
        D0DotPerpD1 == DotPerp(line0.direction, line1.direction)
    IN  IF D0DotPerpD1 # 0
        THEN \* The lines are not parallel.
             [intersect |-> TRUE, numIntersections |-> 1]
        ELSE TIParallel(line0, line1, diff)

(* ------------------------- FIQuery::Result ----------------------------- *)

\* Result(): intersect(false), numIntersections(0), line0Parameter{0, 0},
\* line1Parameter{0, 0}, point(Vector2<T>::Zero())
FIResultDefault ==
    [intersect |-> FALSE, numIntersections |-> 0,
     line0Parameter |-> <<Scalar(0), Scalar(0)>>,
     line1Parameter |-> <<Scalar(0), Scalar(0)>>,
     point |-> ZeroPoint]

(* ------------------------ FIQuery::operator() -------------------------- *)

\* Each branch gives the Result it leaves in `result` and the divisors of
\* the divisions it executed.

\* mutant: the numerators of s0 and s1 are exchanged
FINotParallel_SwappedNumerators(line0, line1, Q, D0DotPerpD1) ==
    LET QDotPerpD0 == DotPerp(Q, line0.direction)
        QDotPerpD1 == DotPerp(Q, line1.direction)
        s0 == Div(QDotPerpD0, D0DotPerpD1)
        s1 == Div(QDotPerpD1, D0DotPerpD1)
    IN  [result |->
            [intersect |-> TRUE, numIntersections |-> 1,
             line0Parameter |-> <<s0, s0>>,
             line1Parameter |-> <<s1, s1>>,
             point |-> PointAt(line0.origin, s0, line0.direction)],
         divisors |-> {D0DotPerpD1}]

\* mutant: s1 has the wrong sign
FINotParallel_NegatedS1(line0, line1, Q, D0DotPerpD1) ==
    LET QDotPerpD0 == DotPerp(Q, line0.direction)
        QDotPerpD1 == DotPerp(Q, line1.direction)
        s0 == Div(QDotPerpD1, D0DotPerpD1)
        s1 == Div(-QDotPerpD0, D0DotPerpD1)
    IN  [result |->
            [intersect |-> TRUE, numIntersections |-> 1,
             line0Parameter |-> <<s0, s0>>,
             line1Parameter |-> <<s1, s1>>,
             point |-> PointAt(line0.origin, s0, line0.direction)],
         divisors |-> {D0DotPerpD1}]

\* mutant: the divisor is std::fabs(D0DotPerpD1)
FINotParallel_AbsDivisor(line0, line1, Q, D0DotPerpD1) ==
    LET QDotPerpD0 == DotPerp(Q, line0.direction)
        QDotPerpD1 == DotPerp(Q, line1.direction)
        s0 == Div(QDotPerpD1, Abs(D0DotPerpD1))
        s1 == Div(QDotPerpD0, Abs(D0DotPerpD1))
    IN  [result |->
            [intersect |-> TRUE, numIntersections |-> 1,
             line0Parameter |-> <<s0, s0>>,
             line1Parameter |-> <<s1, s1>>,
             point |-> PointAt(line0.origin, s0, line0.direction)],
         divisors |-> {Abs(D0DotPerpD1)}]

\* the if branch: the lines are not parallel
FINotParallel(line0, line1, Q, D0DotPerpD1) ==
    LET QDotPerpD0 == DotPerp(Q, line0.direction)
        QDotPerpD1 == DotPerp(Q, line1.direction)
        s0 == Div(QDotPerpD1, D0DotPerpD1)
        s1 == Div(QDotPerpD0, D0DotPerpD1)
    IN  [result |->
            [intersect |-> TRUE, numIntersections |-> 1,
             line0Parameter |-> <<s0, s0>>,
             line1Parameter |-> <<s1, s1>>,
             point |-> PointAt(line0.origin, s0, line0.direction)],
         divisors |-> {D0DotPerpD1}]

\* mutant: the parallel-but-distinct test is missing
FIParallel_NoDisjointTest(line0, line1, Q) ==
    LET maxT == Scalar(MaxT)
    IN  [result |->
            [FIResultDefault EXCEPT
                !.intersect = TRUE,
                !.numIntersections = MaxInt32,
                !.line0Parameter = <<Neg(maxT), maxT>>,
                !.line1Parameter = <<Neg(maxT), maxT>>],
         divisors |-> {}]

\* mutant: line1Parameter is not assigned for coincident lines
FIParallel_Line1ParameterUnset(line0, line1, Q) ==
    LET QDotPerpD1 == DotPerp(Q, line1.direction)
        maxT == Scalar(MaxT)
    IN  IF Abs(QDotPerpD1) # 0
        THEN [result |->
                 [FIResultDefault EXCEPT !.intersect = FALSE,
                                         !.numIntersections = 0],
              divisors |-> {}]
        ELSE [result |->
                 [FIResultDefault EXCEPT
                     !.intersect = TRUE,
                     !.numIntersections = MaxInt32,
                     !.line0Parameter = <<Neg(maxT), maxT>>],
              divisors |-> {}]

\* mutant: the parameters are assigned before the distinct/same test
FIParallel_DisjointWritesParameters(line0, line1, Q) ==
    LET QDotPerpD1 == DotPerp(Q, line1.direction)
        maxT == Scalar(MaxT)
    IN  IF Abs(QDotPerpD1) # 0
        THEN [result |->
                 [FIResultDefault EXCEPT
                     !.intersect = FALSE,
                     !.numIntersections = 0,
                     !.line0Parameter = <<Neg(maxT), maxT>>,
                     !.line1Parameter = <<Neg(maxT), maxT>>],
              divisors |-> {}]
        ELSE [result |->
                 [FIResultDefault EXCEPT
                     !.intersect = TRUE,
                     !.numIntersections = MaxInt32,
                     !.line0Parameter = <<Neg(maxT), maxT>>,
                     !.line1Parameter = <<Neg(maxT), maxT>>],
              divisors |-> {}]

\* the else branch: the lines are parallel
FIParallel(line0, line1, Q) ==
    LET QDotPerpD1 == DotPerp(Q, line1.direction)
    IN  IF Abs(QDotPerpD1) # 0
        THEN \* The lines are parallel but distinct.
             [result |->
                 [FIResultDefault EXCEPT !.intersect = FALSE,
                                         !.numIntersections = 0],
              divisors |-> {}]
        ELSE \* The lines are the same.
             LET maxT == Scalar(MaxT)
             IN  [result |->
                     [FIResultDefault EXCEPT
                         !.intersect = TRUE,
                         !.numIntersections = MaxInt32,
                         !.line0Parameter = <<Neg(maxT), maxT>>,
                         !.line1Parameter = <<Neg(maxT), maxT>>],
                  divisors |-> {}]

\* mutant: the parallel test is made on the offset Q instead of on
\* D0DotPerpD1, so the division is not guarded by its divisor
FIRun_GuardOnOffset(line0, line1) ==
    LET Q == Sub(line1.origin, line0.origin)
        D0DotPerpD1 == DotPerp(line0.direction, line1.direction)
    IN  IF DotPerp(Q, line1.direction) # 0
        THEN FINotParallel(line0, line1, Q, D0DotPerpD1)
        ELSE FIParallel(line0, line1, Q)

\* The run of FIQuery::operator(): the returned Result and the divisors of
\* the divisions it executed.
FIRun(line0, line1) ==
    LET Q == Sub(line1.origin, line0.origin)
        D0DotPerpD1 == DotPerp(line0.direction, line1.direction)
    IN  IF D0DotPerpD1 # 0
        THEN FINotParallel(line0, line1, Q, D0DotPerpD1)
        ELSE FIParallel(line0, line1, Q)

\* the Result FIQuery::operator() returns
FIQuery(line0, line1) == FIRun(line0, line1).result

(* ------------------------------- state --------------------------------- *)

VARIABLES
    line0,      \* the first argument of the queries
    line1,      \* the second argument of the queries
    ti,         \* the Result of TIQuery on (line0, line1)
    fi,         \* the Result of FIQuery on (line0, line1)
    divisors,   \* the divisors of the divisions FIQuery executed
    done,       \* which of the queries have returned for (line0, line1)
    prev        \* the results of the previous queries, and how the
                \* arguments were changed since

vars == <<line0, line1, ti, fi, divisors, done, prev>>

Snapshot(rel, k) == [rel |-> rel, k |-> k, ti |-> ti, fi |-> fi]

Init ==
    /\ line0 \in Lines
    /\ line1 \in Lines
    /\ ti = TIResultDefault
    /\ fi = FIResultDefault
    /\ divisors = {}
    /\ done = {}
    /\ prev = Snapshot("none", 1)

\* TIQuery<T, Line2<T>, Line2<T>>{}(line0, line1)
TestIntersection ==
    /\ "TI" \notin done
    /\ ti' = TIQuery(line0, line1)
    /\ done' = done \cup {"TI"}
    /\ UNCHANGED <<line0, line1, fi, divisors, prev>>

\* FIQuery<T, Line2<T>, Line2<T>>{}(line0, line1)
FindIntersection ==
    /\ "FI" \notin done
    /\ fi' = FIQuery(line0, line1)
    /\ divisors' = FIRun(line0, line1).divisors
    /\ done' = done \cup {"FI"}
    /\ UNCHANGED <<line0, line1, ti, prev>>

\* The caller, with both results for (line0, line1) in hand, makes both
\* queries again on the lines (a, b) and keeps the earlier results.
QueryAgain(rel, k, a, b) ==
    /\ prev.rel = "none"
    /\ done = {"TI", "FI"}
    /\ prev' = Snapshot(rel, k)
    /\ line0' = a
    /\ line1' = b
    /\ ti' = TIQuery(a, b)
    /\ fi' = FIQuery(a, b)
    /\ divisors' = FIRun(a, b).divisors
    /\ done' = done

\* The caller exchanges the two lines and queries again.
SwapLines == QueryAgain("swap", 1, line1, line0)

\* The caller scales the direction of line0 by k and queries again.
ScaleDirection0(k) ==
    QueryAgain("scale0", k,
               [line0 EXCEPT !.direction = Scale(k, line0.direction)], line1)

\* The caller scales the direction of line1 by k and queries again.
ScaleDirection1(k) ==
    QueryAgain("scale1", k,
               line0, [line1 EXCEPT !.direction = Scale(k, line1.direction)])

Next ==
    \/ TestIntersection
    \/ FindIntersection
    \/ SwapLines
    \/ \E k \in Factors : ScaleDirection0(k)
    \/ \E k \in Factors : ScaleDirection1(k)

Spec == Init /\ [][Next]_vars

(* ------------------------- shared vocabulary --------------------------- *)

TIDone == "TI" \in done
FIDone == "FI" \in done
BothDone == done = {"TI", "FI"}

\* Q = line1.origin - line0.origin and D = perp(direction0, direction1)
OffsetQ == Sub(line1.origin, line0.origin)
PerpD == DotPerp(line0.direction, line1.direction)

NonZeroDirections ==
    /\ ~IsZeroVec(line0.direction)
    /\ ~IsZeroVec(line1.direction)

Classified(r, b, n) == r.intersect = b /\ r.numIntersections = n

\* s / k for a value s of T and an integer k # 0
DivBy(s, k) == Div(s[1], s[2] * k)

Pair(s) == <<s, s>>

(* ------------------------------- claims -------------------------------- *)

\* C1: when the directions are linearly independent (perp(direction0,
\* direction1) # 0), TestIntersection and FindIntersection both return
\* intersect = true and numIntersections = 1, whatever the origins are.
C1_UniqueClassification ==
    PerpD # 0 =>
        /\ TIDone => Classified(ti, TRUE, 1)
        /\ FIDone => Classified(fi, TRUE, 1)

C1_Witness ==
    /\ BothDone
    /\ PerpD < 0
    /\ line0.origin # line1.origin
    /\ Classified(ti, TRUE, 1)
    /\ Classified(fi, TRUE, 1)

\* C2: in the unique-intersection case FindIntersection returns
\* line0Parameter = (s0, s0), line1Parameter = (s1, s1) and a point with
\* point = line0.origin + s0 * line0.direction
\*       = line1.origin + s1 * line1.direction in exact arithmetic; origin
\* (0,0) direction (1,0) against origin (0,1) direction (0,1) gives point
\* (0,0), s0 = 0, s1 = -1.
C2_PointOnBothLines ==
    (FIDone /\ PerpD # 0) =>
        LET s0 == fi.line0Parameter[1]
            s1 == fi.line1Parameter[1]
        IN  /\ fi.line0Parameter = Pair(s0)
            /\ fi.line1Parameter = Pair(s1)
            /\ fi.point = PointAt(line0.origin, s0, line0.direction)
            /\ fi.point = PointAt(line1.origin, s1, line1.direction)
            /\ (/\ line0 = Line(Vec(0, 0), Vec(1, 0))
                /\ line1 = Line(Vec(0, 1), Vec(0, 1)))
               => /\ fi.point = ZeroPoint
                  /\ s0 = Scalar(0)
                  /\ s1 = Scalar(-1)

C2_Witness ==
    /\ FIDone
    /\ PerpD # 0
    /\ fi.line0Parameter[1][2] > 1
    /\ fi.line1Parameter[1][1] < 0
    /\ fi.point # ZeroPoint
    /\ fi.point = PointAt(line1.origin, fi.line1Parameter[1], line1.direction)

\* C3: for non-zero parallel directions (perp(direction0, direction1) = 0)
\* whose origin offset Q is not parallel to that direction, both queries
\* return intersect = false and numIntersections = 0.
C3_ParallelDisjoint ==
    (/\ NonZeroDirections
     /\ PerpD = 0
     /\ DotPerp(OffsetQ, line0.direction) # 0) =>
        /\ TIDone => Classified(ti, FALSE, 0)
        /\ FIDone => Classified(fi, FALSE, 0)

C3_Witness ==
    /\ BothDone
    /\ NonZeroDirections
    /\ PerpD = 0
    /\ DotPerp(OffsetQ, line0.direction) # 0
    /\ line1.direction # line0.direction
    /\ Classified(ti, FALSE, 0)
    /\ Classified(fi, FALSE, 0)

C5_SwapSymmetry ==
    (prev.rel = "swap" /\ NonZeroDirections) =>
        /\ TIDone => ti = prev.ti
        /\ FIDone =>
            /\ fi.intersect = prev.fi.intersect
            /\ fi.numIntersections = prev.fi.numIntersections
            /\ prev.fi.numIntersections = 1 =>
                /\ fi.line0Parameter = prev.fi.line1Parameter
                /\ fi.line1Parameter = prev.fi.line0Parameter
                /\ fi.point = prev.fi.point

C5_Witness ==
    /\ prev.rel = "swap"
    /\ BothDone
    /\ NonZeroDirections
    /\ fi.numIntersections = 1
    /\ fi.line0Parameter # fi.line1Parameter
    /\ fi.line0Parameter = prev.fi.line1Parameter
    /\ fi.point # ZeroPoint

\* C6: for every pair of input lines (non-parallel, parallel-disjoint,
\* coincident, coincident origins, zero-length directions) FindIntersection
\* returns the same intersect and numIntersections as TestIntersection: the
\* zero-test on perp(Normalize(Q), direction1) and the zero-test on
\* perp(Q, direction1) select the same branch.
C6_SameClassification ==
    /\ BothDone =>
        /\ fi.intersect = ti.intersect
        /\ fi.numIntersections = ti.numIntersections
    /\ NonZeroN(DotPerpN(Normalize(OffsetQ), line1.direction))
         <=> (Abs(DotPerp(OffsetQ, line1.direction)) # 0)

C6_Witness ==
    /\ BothDone
    /\ IsZeroVec(line0.direction)
    /\ ~IsZeroVec(line1.direction)
    /\ DotPerp(OffsetQ, line1.direction) # 0
    /\ Classified(ti, FALSE, 0)
    /\ Classified(fi, FALSE, 0)

\* C7: whenever FindIntersection classifies the lines as coincident
\* (numIntersections = the maximum int32 value) it returns line0Parameter =
\* line1Parameter = (-maxT, +maxT) and leaves point at (0, 0).
C7_CoincidentSentinels ==
    (FIDone /\ fi.numIntersections = MaxInt32) =>
        /\ fi.line0Parameter = <<Neg(Scalar(MaxT)), Scalar(MaxT)>>
        /\ fi.line1Parameter = <<Neg(Scalar(MaxT)), Scalar(MaxT)>>
        /\ fi.line0Parameter[1][1] < 0
        /\ fi.point = ZeroPoint

C7_Witness ==
    /\ FIDone
    /\ ~TIDone
    /\ fi.numIntersections = MaxInt32
    /\ line0.origin # Vec(0, 0)
    /\ line1.origin # line0.origin
    /\ fi.line1Parameter = <<Neg(Scalar(MaxT)), Scalar(MaxT)>>

\* C8: scaling one line's direction by a non-zero factor k leaves intersect,
\* numIntersections and, in the unique-intersection case, point unchanged,
\* while that line's parameter becomes s / k and the other line's parameter
\* is unchanged.
C8_ScaleInvariance ==
    /\ prev.rel \in {"scale0", "scale1"} =>
        /\ TIDone => ti = prev.ti
        /\ FIDone =>
            /\ fi.intersect = prev.fi.intersect
            /\ fi.numIntersections = prev.fi.numIntersections
            /\ prev.fi.numIntersections = 1 => fi.point = prev.fi.point
    /\ (prev.rel = "scale0" /\ FIDone /\ prev.fi.numIntersections = 1) =>
        /\ fi.line0Parameter = Pair(DivBy(prev.fi.line0Parameter[1], prev.k))
        /\ fi.line1Parameter = prev.fi.line1Parameter
    /\ (prev.rel = "scale1" /\ FIDone /\ prev.fi.numIntersections = 1) =>
        /\ fi.line1Parameter = Pair(DivBy(prev.fi.line1Parameter[1], prev.k))
        /\ fi.line0Parameter = prev.fi.line0Parameter

C8_Witness ==
    /\ prev.rel = "scale0"
    /\ prev.k = -2
    /\ BothDone
    /\ fi.numIntersections = 1
    /\ prev.fi.line0Parameter[1] = Scalar(1)
    /\ fi.line0Parameter = Pair(<<-1, 2>>)
    /\ fi.point = prev.fi.point
    /\ fi.point # ZeroPoint

\* C9: whenever FindIntersection reports no intersection (intersect = false,
\* numIntersections = 0) the returned record equals the default-constructed
\* Result: both parameter pairs (0, 0) and point (0, 0).
C9_DisjointLeavesDefaults ==
    (FIDone /\ ~fi.intersect /\ fi.numIntersections = 0) =>
        /\ fi = FIResultDefault
        /\ fi.line0Parameter = <<Scalar(0), Scalar(0)>>
        /\ fi.line1Parameter = <<Scalar(0), Scalar(0)>>
        /\ fi.point = <<Scalar(0), Scalar(0)>>

C9_Witness ==
    /\ FIDone
    /\ ~fi.intersect
    /\ fi.numIntersections = 0
    /\ PerpD = 0
    /\ line0.origin # Vec(0, 0)
    /\ fi = FIResultDefault

\* C10 (as claimed): there is an input with line0.direction or
\* line1.direction the zero vector for which FindIntersection executes
\* s0 = perp(Q, direction1) / D and s1 = perp(Q, direction0) / D with
\* divisor D = perp(direction0, direction1) = 0.
C10_ZeroDirectionDividesByZero ==
    (FIDone /\ (IsZeroVec(line0.direction) \/ IsZeroVec(line1.direction))) =>
        \E l0 \in Lines, l1 \in Lines :
            /\ IsZeroVec(l0.direction) \/ IsZeroVec(l1.direction)
            /\ 0 \in FIRun(l0, l1).divisors

\* C10 (amended): FindIntersection never divides by zero.  Every division it
\* executes has the non-zero divisor D, and with a zero-length direction on
\* either line D = 0, so the unique-intersection branch is not entered, no
\* division is executed and the pair is reported as parallel: disjoint
\* (numIntersections = 0) or coincident (numIntersections = max int32).
C10_NoDivisionByZero ==
    FIDone =>
        /\ 0 \notin divisors
        /\ (fi.numIntersections = 1) <=> (divisors = {PerpD})
        /\ (IsZeroVec(line0.direction) \/ IsZeroVec(line1.direction)) =>
            /\ divisors = {}
            /\ fi.numIntersections \in {0, MaxInt32}

C10_Witness ==
    /\ FIDone
    /\ IsZeroVec(line0.direction)
    /\ ~IsZeroVec(line1.direction)
    /\ DotPerp(OffsetQ, line1.direction) # 0
    /\ divisors = {}
    /\ Classified(fi, FALSE, 0)
    /\ ~TIDone

====
